---- MODULE Spec2Model ----
(***************************************************************************)
(* Model of the clickhouse-connector service: the SQL safety validator,    *)
(* the query executor, the result mapper, the gRPC handlers and the        *)
(* interceptor chain the server installs.                                  *)
(*                                                                         *)
(* Strings whose characters matter (SQL text, column names) are sequences  *)
(* of one-character strings, so that lower-casing, trimming, prefix and    *)
(* substring tests are computed character by character.                    *)
(***************************************************************************)
EXTENDS Integers, Sequences, FiniteSets, TLC

VARIABLES
    query,        \* ValidateQuery: the SQL text under validation
    verr,         \* ValidateQuery: its result (NotRun, NoError or an error)
    pc,           \* position of the RPC being served
    endpoint,     \* "GetRetailers" or "GetRetailersStream"
    wire,         \* the request as the caller sent it
    req,          \* the pb.GetRetailersRequest (req.Limit is clamped in place)
    execCalls,    \* arguments of the ExecuteQuery calls made for this RPC
    backendCalls, \* queries handed to db.QueryContext for this RPC
    columnNames,  \* ExecuteQuery: rows.Columns()
    resultRows,   \* ExecuteQuery: the rows scanned so far
    backendRows,  \* the rows the backend has yielded, as it yielded them
    execErr,      \* error returned by ExecuteQuery, NoError if none
    execReturn,   \* what ExecuteQuery returned: <<>> before it returns
    executionTime,\* executionTime returned by ExecuteQuery
    retailers,    \* convertToRetailers: the slice built so far
    resp,         \* GetRetailers' response: <<>> if nil, else <<response>>
    status,       \* transport-level outcome of the RPC
    sent,         \* messages delivered by stream.Send, in order
    sendFailed,   \* a stream.Send of this RPC returned an error
    sendIdx,      \* GetRetailersStream: index of the next retailer to send
    panicked,     \* a panic was raised while the RPC was handled
    callPc,       \* concurrent callers: position of each caller's GetRetailers
    frames,       \* concurrent callers: parameters and locals of each invocation
    sentReq,      \* concurrent callers: the request each caller sent
    backend,      \* concurrent callers: what the backend got and gave, per call
    outcome,      \* concurrent callers: what each caller got back
    benchPc,      \* runBenchmark: "loop", "wait" or "done"
    launched,     \* runBenchmark: goroutines started by the loop
    worker,       \* runBenchmark: position of each goroutine
    semaphore,    \* runBenchmark: elements held in the channel's buffer
    wg,           \* runBenchmark: counter of the sync.WaitGroup
    mu,           \* runBenchmark: holder of the sync.Mutex, 0 if free
    durations,    \* runBenchmark: len(durations)
    errors,       \* runBenchmark: the errors counter
    proc,         \* server process: position of main
    serving,      \* server process: the gRPC server accepts new calls
    inflight,     \* server process: where each accepted, unfinished call is
    accepted,     \* server process: calls accepted so far
    signalled,    \* server process: an interrupt/termination signal was delivered
    dbOpen,       \* server process: the backend connection handle is open
    closeCalls,   \* server process: invocations of Client.Close so far
    closedBusy    \* server process: Client.Close ran while a call was in flight

vars == <<query, verr, pc, endpoint, wire, req, execCalls, backendCalls,
          columnNames, resultRows, backendRows, execErr, execReturn,
          executionTime, retailers, resp, status, sent, sendFailed, sendIdx, panicked,
          callPc, frames, sentReq, backend, outcome,
          benchPc, launched, worker, semaphore, wg, mu, durations, errors,
          proc, serving, inflight, accepted, signalled, dbOpen, closeCalls,
          closedBusy>>

\* the variables of the one-RPC-at-a-time specifications
rpcVars == <<query, verr, pc, endpoint, wire, req, execCalls, backendCalls,
             columnNames, resultRows, backendRows, execErr, execReturn,
             executionTime, retailers, resp, status, sent, sendFailed, sendIdx,
             panicked>>

\* the variables of the other specifications, which a step of one leaves alone
concVars == <<callPc, frames, sentReq, backend, outcome>>
benchVars == <<benchPc, launched, worker, semaphore, wg, mu, durations, errors>>
serverVars == <<proc, serving, inflight, accepted, signalled, dbOpen, closeCalls,
                closedBusy>>
others == <<concVars, benchVars, serverVars>>
notConcurrent == <<rpcVars, benchVars, serverVars>>
notBenchmark == <<rpcVars, concVars, serverVars>>
notServer == <<rpcVars, concVars, benchVars>>

-----------------------------------------------------------------------------
(* Bounds of the model *)

MaxTokens == 4    \* tokens concatenated into a SQL text
MaxRows == 2      \* rows the backend returns for one query
NumCallers == 2   \* callers that invoke GetRetailers concurrently
NumRequests == 3  \* runBenchmark: numRequests
Concurrency == 2  \* runBenchmark: concurrency
MaxCalls == 3     \* calls the server accepts in one run

-----------------------------------------------------------------------------
(* Characters and Go's strings functions *)

UpperCase == <<"A","B","C","D","E","F","G","H","I","J","K","L","M",
               "N","O","P","Q","R","S","T","U","V","W","X","Y","Z">>
LowerCase == <<"a","b","c","d","e","f","g","h","i","j","k","l","m",
               "n","o","p","q","r","s","t","u","v","w","x","y","z">>

\* the white space unicode.IsSpace knows in the ASCII range
WhiteSpace == {" ", "\t", "\n", "\r", "\f"}

\* unicode.ToLower on the letters A..Z
LowerOf ==
    [c \in {UpperCase[i] : i \in 1..Len(UpperCase)} |->
        LowerCase[CHOOSE i \in 1..Len(UpperCase) : UpperCase[i] = c]]

ToLowerChar(c) == IF c \in DOMAIN LowerOf THEN LowerOf[c] ELSE c

\* strings.ToLower
ToLower(s) == [i \in 1..Len(s) |-> ToLowerChar(s[i])]

\* strings.TrimSpace
TrimSpace(s) ==
    LET idx == {i \in 1..Len(s) : s[i] \notin WhiteSpace}
    IN  IF idx = {} THEN <<>>
        ELSE LET lo == CHOOSE i \in idx : \A j \in idx : i <= j
                 hi == CHOOSE i \in idx : \A j \in idx : j <= i
             IN  SubSeq(s, lo, hi)

\* strings.HasPrefix
HasPrefix(s, prefix) ==
    /\ Len(prefix) <= Len(s)
    /\ \A j \in 1..Len(prefix) : s[j] = prefix[j]

\* strings.Contains
Contains(s, substr) ==
    \E i \in 1..(Len(s) - Len(substr) + 1) :
        \A j \in 1..Len(substr) : s[i + j - 1] = substr[j]

-----------------------------------------------------------------------------
(* Client.ValidateQuery *)

NotRun == <<"not run">>
NoError == <<>>

kwSelect == <<"s","e","l","e","c","t">>
wDrop == <<"d","r","o","p">>
wDelete == <<"d","e","l","e","t","e">>
wInsert == <<"i","n","s","e","r","t">>
wUpdate == <<"u","p","d","a","t","e">>
wAlter == <<"a","l","t","e","r">>
wTruncate == <<"t","r","u","n","c","a","t","e">>
wGrant == <<"g","r","a","n","t">>
wRevoke == <<"r","e","v","o","k","e">>
wExec == <<"e","x","e","c">>
wExecute == <<"e","x","e","c","u","t","e">>
wTable == <<"t","a","b","l","e">>
wDatabase == <<"d","a","t","a","b","a","s","e">>
wCreate == <<"c","r","e","a","t","e">>
wInto == <<"i","n","t","o">>

\* (variant: the keyword stands in the blacklist without spaces around it)
Padded_Bare(w) == w

\* a single keyword of the blacklist: " drop "
Padded(w) == <<" ">> \o w \o <<" ">>
Phrase(a, b) == a \o <<" ">> \o b

\* the blacklist, in the order the loop walks it
dangerousKeywords == <<
    Padded(wDrop), Padded(wDelete), Padded(wInsert), Padded(wUpdate),
    Padded(wAlter), Padded(wTruncate), Padded(wGrant), Padded(wRevoke),
    Padded(wExec), Padded(wExecute),
    Phrase(wDrop, wTable), Phrase(wDrop, wDatabase),
    Phrase(wCreate, wTable), Phrase(wCreate, wDatabase),
    Phrase(wAlter, wTable), Phrase(wTruncate, wTable),
    Phrase(wInsert, wInto) >>

\* the printed form of TrimSpace(keyword) in the error message
keywordNames == <<
    "drop", "delete", "insert", "update", "alter", "truncate", "grant",
    "revoke", "exec", "execute", "drop table", "drop database",
    "create table", "create database", "alter table", "truncate table",
    "insert into" >>

\* ValidateQuery with the SELECT test made by strings.Contains
ValidateQuery_SelectAnywhere(q) ==
    LET queryLower == ToLower(TrimSpace(q))
        queryWithSpaces == <<" ">> \o queryLower \o <<" ">>
        hits == {k \in 1..Len(dangerousKeywords) :
                    Contains(queryWithSpaces, dangerousKeywords[k])}
    IN  IF ~Contains(queryLower, kwSelect)
        THEN <<"only SELECT queries are allowed">>
        ELSE IF hits # {}
        THEN <<"query contains forbidden keyword",
               keywordNames[CHOOSE k \in hits : \A j \in hits : k <= j]>>
        ELSE NoError

\* an error is the sequence of the parts of its message, outermost first
ValidateQuery(q) ==
    LET queryLower == ToLower(TrimSpace(q))
        queryWithSpaces == <<" ">> \o queryLower \o <<" ">>
        hits == {k \in 1..Len(dangerousKeywords) :
                    Contains(queryWithSpaces, dangerousKeywords[k])}
    IN  IF ~HasPrefix(queryLower, kwSelect)
        THEN <<"only SELECT queries are allowed">>
        ELSE IF hits # {}
        THEN <<"query contains forbidden keyword",
               keywordNames[CHOOSE k \in hits : \A j \in hits : k <= j]>>
        ELSE NoError

-----------------------------------------------------------------------------
(* Go values: slices (nil or not), untyped scalars, maps *)

NilSlice == [isNil |-> TRUE, elems |-> <<>>]
EmptySlice == [isNil |-> FALSE, elems |-> <<>>]

\* append(s, x): the result is never nil
AppendSlice(s, x) == [isNil |-> FALSE, elems |-> Append(s.elems, x)]

\* the driver's scalars as interface{} values: a dynamic type and its value
NilValue == [type |-> "nil", str |-> "", sec |-> 0, nsec |-> 0]
StringValue(s) == [type |-> "string", str |-> s, sec |-> 0, nsec |-> 0]
IntValue(s) == [type |-> "int64", str |-> s, sec |-> 0, nsec |-> 0]
TimeValue(sec, nsec) == [type |-> "time.Time", str |-> "", sec |-> sec, nsec |-> nsec]

Range(f) == {f[x] : x \in DOMAIN f}

\* a map with no keys
EmptyMap == [k \in {} |-> ""]

\* the int32 range of limit and offset
MaxInt32 == 2147483647

\* the cap GetRetailers puts on req.Limit
MaxLimit == 10000

-----------------------------------------------------------------------------
(* Client.ExecuteQuery *)

\* fmt.Sprintf("%d", i), for the indices a parameter map of the model can reach
Itoa(i) == <<"1", "2", "3", "4", "5", "6", "7", "8", "9">>[i]

\* the loop over i = 1..len(parameters): a present key appends its value
RECURSIVE BindFrom(_, _)
BindFrom(parameters, i) ==
    IF i > Cardinality(DOMAIN parameters) THEN <<>>
    ELSE IF Itoa(i) \in DOMAIN parameters
         THEN <<parameters[Itoa(i)]>> \o BindFrom(parameters, i + 1)
         ELSE BindFrom(parameters, i + 1)

BindParameters(parameters) == BindFrom(parameters, 1)

\* finalQuery: the SQL text and the clauses appended to it, with the
\* arguments that go with it to db.QueryContext
FinalQuery(sqlQuery, parameters, limit, offset) ==
    [ text   |-> sqlQuery,
      limit  |-> IF limit > 0 THEN <<limit>> ELSE <<>>,
      offset |-> IF offset > 0 THEN <<offset>> ELSE <<>>,
      args   |-> BindParameters(parameters) ]

\* (variant: the Validator is not consulted)
ExecuteQueryChecks_Unvalidated(sqlQuery) ==
    IF sqlQuery = <<>> THEN <<"sql_query cannot be empty">> ELSE NoError

\* the checks made before the backend is touched: NoError or the error
ExecuteQueryChecks(sqlQuery) ==
    IF sqlQuery = <<>>
    THEN <<"sql_query cannot be empty">>
    ELSE IF ValidateQuery(sqlQuery) # NoError
    THEN <<"invalid query">> \o ValidateQuery(sqlQuery)
    ELSE NoError

\* rowMap: one entry per column name; a repeated name keeps the last value
RowMap(names, values) ==
    [ c \in Range(names) |->
        values[CHOOSE i \in 1..Len(names) :
                  /\ names[i] = c
                  /\ \A j \in 1..Len(names) : names[j] = c => j <= i] ]

\* fmt.Errorf("...: %w", err)
Wrap(prefix, err) == <<prefix>> \o err

\* the *SQLResult ExecuteQuery returns: nil, or a result with its rows
NilResult == [isNil |-> TRUE, Columns |-> <<>>, Rows |-> NilSlice]

SQLResult(names, rows) == [isNil |-> FALSE, Columns |-> names, Rows |-> rows]

\* (variant: the rows scanned before the failure are handed back)
Failure_PartialRows(scanned, err) ==
    [result |-> SQLResult(<<>>, scanned), executionTime |-> 0, err |-> err]

\* every failing return of ExecuteQuery: return nil, 0, fmt.Errorf(...);
\* scanned, the rows read so far, is dropped with the frame
Failure(scanned, err) ==
    [result |-> NilResult, executionTime |-> 0, err |-> err]

\* return result, executionTime, nil
Success(names, rows, ms) ==
    [result |-> SQLResult(names, rows), executionTime |-> ms, err |-> NoError]

-----------------------------------------------------------------------------
(* Handler.convertToRetailers *)

cId == <<"i","d">>
cName == <<"n","a","m","e">>
cCreatedAt == <<"c","r","e","a","t","e","d","_","a","t">>

\* a pb.Retailer: each field unset (<<>>) or set (<<value>>)
EmptyRetailer == [Id |-> <<>>, Name |-> <<>>, CreatedAt |-> <<>>]

\* timestamppb.New
TimestampNew(v) == [seconds |-> v.sec, nanos |-> v.nsec]

\* MapColumn with the column name compared as it is spelled
MapColumn_CaseSensitive(retailer, columnName, value) ==
    IF value.type = "nil" THEN retailer
    ELSE IF columnName = cId /\ value.type = "string"
         THEN [retailer EXCEPT !.Id = <<value.str>>]
         ELSE IF columnName = cName /\ value.type = "string"
         THEN [retailer EXCEPT !.Name = <<value.str>>]
         ELSE IF columnName = cCreatedAt /\ value.type = "time.Time"
         THEN [retailer EXCEPT !.CreatedAt = <<TimestampNew(value)>>]
         ELSE retailer

\* the body of the loop over one row's columns, for one column
MapColumn(retailer, columnName, value) ==
    IF value.type = "nil" THEN retailer
    ELSE LET columnNameLower == ToLower(columnName)
         IN  IF columnNameLower = cId /\ value.type = "string"
             THEN [retailer EXCEPT !.Id = <<value.str>>]
             ELSE IF columnNameLower = cName /\ value.type = "string"
             THEN [retailer EXCEPT !.Name = <<value.str>>]
             ELSE IF columnNameLower = cCreatedAt /\ value.type = "time.Time"
             THEN [retailer EXCEPT !.CreatedAt = <<TimestampNew(value)>>]
             ELSE retailer

\* one row: its columns are visited in the order the map iteration yields,
\* here the sequence order, a permutation of the row's column names
RECURSIVE ConvertRowFrom(_, _, _, _)
ConvertRowFrom(retailer, row, order, i) ==
    IF i > Len(order) THEN retailer
    ELSE ConvertRowFrom(MapColumn(retailer, order[i], row[order[i]]),
                        row, order, i + 1)

ConvertRow(row, order) == ConvertRowFrom(EmptyRetailer, row, order, 1)

\* the iteration orders a map with these keys can yield
KeyOrders(S) ==
    {p \in [1..Cardinality(S) -> S] : \A i, j \in DOMAIN p : p[i] = p[j] => i = j}

-----------------------------------------------------------------------------
(* Handler.GetRetailers *)

NoStatus == [code |-> "none", msg |-> <<>>]
OK == [code |-> "OK", msg |-> <<>>]

\* status.Error(code, msg)
StatusError(code, msg) == [code |-> code, msg |-> msg]

ZeroRequest == [SqlQuery |-> <<>>, Parameters |-> EmptyMap, Limit |-> 0, Offset |-> 0]

\* GateStatus without the test of the offset
GateStatus_OffsetUnchecked(r) ==
    IF r.SqlQuery = <<>>
    THEN StatusError("InvalidArgument", <<"sql_query cannot be empty">>)
    ELSE IF r.Limit < 0
    THEN StatusError("InvalidArgument", <<"limit cannot be negative">>)
    ELSE NoStatus

\* the validation gate: NoStatus when the request may proceed
GateStatus(r) ==
    IF r.SqlQuery = <<>>
    THEN StatusError("InvalidArgument", <<"sql_query cannot be empty">>)
    ELSE IF r.Limit < 0
    THEN StatusError("InvalidArgument", <<"limit cannot be negative">>)
    ELSE IF r.Offset < 0
    THEN StatusError("InvalidArgument", <<"offset cannot be negative">>)
    ELSE NoStatus

\* ClampLimit with the cap left out
ClampLimit_Uncapped(limit) == limit

\* the safety cap on req.Limit
ClampLimit(limit) == IF limit > MaxLimit THEN MaxLimit ELSE limit

\* ErrorResponse with the partial outcome left in the response
ErrorResponse_ErrorDropped(err) ==
    [Retailers |-> EmptySlice, Count |-> 0, ExecutionTimeMs |-> 0, Error |-> NoError]

\* the response returned when ExecuteQuery failed
ErrorResponse(err) ==
    [Retailers |-> NilSlice, Count |-> 0, ExecutionTimeMs |-> 0, Error |-> err]

\* NonNil with the nil test left out
NonNil_Unchecked(s) == s

\* a nil conversion result is replaced by an empty slice
NonNil(s) == IF s.isNil THEN EmptySlice ELSE s

\* the response returned when ExecuteQuery succeeded, from the slice
\* convertToRetailers returned
SuccessResponse(converted, ms) ==
    [Retailers |-> NonNil(converted), Count |-> Len(NonNil(converted).elems),
     ExecutionTimeMs |-> ms, Error |-> NoError]

-----------------------------------------------------------------------------
(* Handler.GetRetailersStream *)

\* StreamErrorStatus that hides the response's error behind a nil error
StreamErrorStatus_Nil(r) == OK

\* the status returned for a response that carries an error:
\* status.Errorf(codes.Internal, "%s", resp.Error)
StreamErrorStatus(r) == StatusError("Internal", r.Error)

\* the message that carries one retailer
RetailerMessage(retailer) ==
    [Retailer |-> <<retailer>>, IsLast |-> FALSE, ExecutionTimeMs |-> 0]

\* EndMessage without IsLast
EndMessage_NotLast(ms) ==
    [Retailer |-> <<>>, IsLast |-> FALSE, ExecutionTimeMs |-> ms]

\* the end marker
EndMessage(ms) ==
    [Retailer |-> <<>>, IsLast |-> TRUE, ExecutionTimeMs |-> ms]

-----------------------------------------------------------------------------
(* Server.Start: the interceptors installed on the grpc.Server *)

ServerOptions ==
    [ UnaryInterceptor  |-> "unaryInterceptor",
      StreamInterceptor |-> "streamInterceptor" ]

\* the interceptors whose deferred function recovers a panic
Recovers(interceptor) ==
    interceptor \in {"recoveryInterceptor", "streamRecoveryInterceptor"}

\* the interceptor a call to this endpoint goes through
InterceptorFor(ep) ==
    IF ep = "GetRetailersStream"
    THEN ServerOptions.StreamInterceptor
    ELSE ServerOptions.UnaryInterceptor

-----------------------------------------------------------------------------
(* The state of the parts a specification does not exercise *)

Callers == 1..NumCallers

\* the parameters and locals of one invocation of GetRetailers
EmptyFrame == [req |-> ZeroRequest, rows |-> NilSlice, retailers |-> NilSlice]

NoCallers ==
    /\ callPc = [c \in Callers |-> "idle"]
    /\ frames = [f \in Callers |-> EmptyFrame]
    /\ sentReq = [c \in Callers |-> ZeroRequest]
    /\ backend = [c \in Callers |-> <<>>]
    /\ outcome = [c \in Callers |-> <<>>]

Workers == 1..NumRequests

NoBenchmark ==
    /\ benchPc = "loop"
    /\ launched = 0
    /\ worker = [g \in Workers |-> "none"]
    /\ semaphore = 0
    /\ wg = 0
    /\ mu = 0
    /\ durations = 0
    /\ errors = 0

NoProcess ==
    /\ proc = "connect"
    /\ serving = FALSE
    /\ inflight = <<>>
    /\ accepted = 0
    /\ signalled = FALSE
    /\ dbOpen = FALSE
    /\ closeCalls = 0
    /\ closedBusy = FALSE

NoOthers ==
    /\ NoCallers
    /\ NoBenchmark
    /\ NoProcess

-----------------------------------------------------------------------------
(* The requests callers send and the answers the backend gives *)

Text(a, sep, b) == a \o sep \o b

SqlTexts ==
    { <<>>,                                     \* empty
      Text(<<"S","e","l","e","c","t">>, <<" ">>, <<"x">>),   \* Select x
      Text(wUpdate, <<" ">>, <<"x">>),          \* update x
      Text(kwSelect, <<" ">>, wDrop) }          \* select drop

ParameterMaps ==
    { EmptyMap, ("1" :> "a" @@ "3" :> "c") }

Limits == {-1, 0, MaxLimit - 1, MaxLimit + 1, MaxInt32}
Offsets == {-1, 0, 2}

Requests ==
    [SqlQuery : SqlTexts, Parameters : ParameterMaps, Limit : Limits, Offset : Offsets]

Endpoints == {"GetRetailers", "GetRetailersStream"}

ColumnLists ==
    { << <<"I","D">>, <<"N","A","M","E">>, <<"C","R","E","A","T","E","D","_","A","T">> >>,
      << <<"e","x","t","r","a","_","c","o","l">>, <<"N","a","m","e">>,
         <<"C","r","e","a","t","e","d","_","A","t">> >>,
      << cId, <<"I","D">>, <<"I","d">> >>,
      << cName, cName, cCreatedAt >> }

\* the values of one backend row, by column position
RowPool ==
    { << StringValue("r1"), StringValue("Acme"), TimeValue(1700000000, 5) >>,
      << IntValue("7"), NilValue, StringValue("zz") >>,
      << NilValue, StringValue("Bolt"), TimeValue(1700000001, 0) >> }

\* a backend failure, the deadline of the caller's context, its cancellation
DriverErrors ==
    { <<"connection refused">>, <<"context deadline exceeded">>, <<"context canceled">> }

\* time.Since(start).Milliseconds()
ExecutionTimes == {0, 12}

\* the error stream.Send returns when the message cannot be delivered
SendError == StatusError("Unavailable", <<"transport is closing">>)

\* the arguments of a direct call of ExecuteQuery
ExecuteTexts ==
    { <<>>,                                                  \* empty
      Text(<<"S","e","l","e","c","t">>, <<" ">>, <<"x">>),   \* Select x
      Text(<<" ">>, kwSelect, <<"\n">>),                     \* select, in white space
      Text(wUpdate, <<" ">>, <<"x">>),                       \* update x
      Text(kwSelect, <<" ">>, wDrop),                        \* select drop
      Text(kwSelect, <<" ">>, Text(wInsert, <<" ">>, wInto)) }   \* select insert into

ExecuteParameterMaps ==
    { EmptyMap,
      ("1" :> "a"),
      ("1" :> "a" @@ "2" :> "b"),
      ("1" :> "a" @@ "3" :> "c"),
      ("2" :> "b" @@ "3" :> "c"),
      ("0" :> "z" @@ "1" :> "a" @@ "2" :> "b") }

ExecuteLimits == {-1, 0, 5}
ExecuteOffsets == {0, 2}

ExecuteArguments ==
    [sqlQuery : ExecuteTexts, parameters : ExecuteParameterMaps,
     limit : ExecuteLimits, offset : ExecuteOffsets]

\* ExecuteQueryChecks of every text that reaches ExecuteQuery, computed once
CheckedTexts == [q \in SqlTexts \cup ExecuteTexts |-> ExecuteQueryChecks(q)]

-----------------------------------------------------------------------------
(* Specification Spec: the server handles one RPC after another *)

NoRpc ==
    /\ pc = "idle"
    /\ endpoint = "none"
    /\ wire = ZeroRequest
    /\ req = ZeroRequest
    /\ execCalls = <<>>
    /\ backendCalls = <<>>
    /\ columnNames = <<>>
    /\ resultRows = NilSlice
    /\ backendRows = <<>>
    /\ execErr = NoError
    /\ execReturn = <<>>
    /\ executionTime = 0
    /\ retailers = NilSlice
    /\ resp = <<>>
    /\ status = NoStatus
    /\ sent = <<>>
    /\ sendFailed = FALSE
    /\ sendIdx = 0
    /\ panicked = FALSE

Init ==
    /\ query = <<>>
    /\ verr = NotRun
    /\ NoRpc
    /\ NoOthers

\* a caller's request reaches the handler of the endpoint it names
Receive(r, ep) ==
    /\ pc = "idle"
    /\ pc' = "handler"
    /\ endpoint' = ep
    /\ wire' = r
    /\ req' = r
    /\ UNCHANGED <<others, query, verr, execCalls, backendCalls, columnNames,
                   resultRows, backendRows, execErr, execReturn, executionTime,
                   retailers, resp, status, sent, sendFailed, sendIdx, panicked>>

\* the outcome has gone back to the caller; nothing of the RPC is kept
Respond ==
    /\ pc = "done"
    /\ pc' = "idle"
    /\ endpoint' = "none"
    /\ wire' = ZeroRequest
    /\ req' = ZeroRequest
    /\ execCalls' = <<>>
    /\ backendCalls' = <<>>
    /\ columnNames' = <<>>
    /\ resultRows' = NilSlice
    /\ backendRows' = <<>>
    /\ execErr' = NoError
    /\ execReturn' = <<>>
    /\ executionTime' = 0
    /\ retailers' = NilSlice
    /\ resp' = <<>>
    /\ status' = NoStatus
    /\ sent' = <<>>
    /\ sendFailed' = FALSE
    /\ sendIdx' = 0
    /\ panicked' = FALSE
    /\ UNCHANGED <<others, query, verr>>

\* GetRetailers up to its call of ExecuteQuery; GetRetailersStream hands
\* the error of GetRetailers to its caller unchanged
GetRetailersGate ==
    /\ pc = "handler"
    /\ IF GateStatus(req) # NoStatus
       THEN /\ pc' = "done"
            /\ status' = GateStatus(req)
            /\ UNCHANGED <<req, execCalls>>
       ELSE /\ pc' = "execute"
            /\ req' = [req EXCEPT !.Limit = ClampLimit(req.Limit)]
            /\ execCalls' = Append(execCalls,
                   [ sqlQuery   |-> req.SqlQuery,
                     parameters |-> req.Parameters,
                     limit      |-> ClampLimit(req.Limit),
                     offset     |-> req.Offset ])
            /\ UNCHANGED status
    /\ UNCHANGED <<others, query, verr, endpoint, wire, backendCalls, columnNames,
                   resultRows, backendRows, execErr, execReturn, executionTime,
                   retailers, resp, sent, sendFailed, sendIdx, panicked>>

\* ExecuteQuery returns to its caller
Return(ret) ==
    /\ execReturn' = <<ret>>
    /\ execErr' = ret.err
    /\ pc' = "executed"

\* ExecuteQuery from its entry to rows.Columns()
ExecuteQueryStart ==
    /\ pc = "execute"
    /\ LET a == execCalls[Len(execCalls)]
           err == CheckedTexts[a.sqlQuery]
       IN  IF err # NoError
           THEN /\ Return(Failure(resultRows, err))
                /\ UNCHANGED <<backendCalls, columnNames>>
           ELSE /\ backendCalls' = Append(backendCalls,
                       FinalQuery(a.sqlQuery, a.parameters, a.limit, a.offset))
                /\ \/ \E e \in DriverErrors :
                        /\ Return(Failure(resultRows, Wrap("failed to execute query", e)))
                        /\ UNCHANGED columnNames
                   \/ \E e \in DriverErrors :
                        /\ Return(Failure(resultRows, Wrap("failed to get column names", e)))
                        /\ UNCHANGED columnNames
                   \/ \E names \in ColumnLists :
                        /\ columnNames' = names
                        /\ pc' = "scan"
                        /\ UNCHANGED <<execErr, execReturn>>
    /\ UNCHANGED <<others, query, verr, endpoint, wire, req, execCalls, resultRows, backendRows,
                   executionTime, retailers, resp, status, sent, sendFailed, sendIdx,
                   panicked>>

\* one turn of the loop over rows.Next(): the backend has another row
ExecuteQueryScan ==
    /\ pc = "scan"
    /\ Len(resultRows.elems) < MaxRows
    /\ \/ \E values \in RowPool :
            /\ backendRows' = Append(backendRows, SubSeq(values, 1, Len(columnNames)))
            /\ resultRows' = AppendSlice(resultRows,
                   RowMap(columnNames, SubSeq(values, 1, Len(columnNames))))
            /\ UNCHANGED <<pc, execErr, execReturn>>
       \/ \E e \in DriverErrors :
            /\ Return(Failure(resultRows, Wrap("failed to scan row", e)))
            /\ UNCHANGED <<resultRows, backendRows>>
    /\ UNCHANGED <<others, query, verr, endpoint, wire, req, execCalls, backendCalls,
                   columnNames, executionTime, retailers, resp, status, sent,
                   sendFailed, sendIdx, panicked>>

\* rows.Next() returns false: rows.Err() is checked and ExecuteQuery returns
\* its result with the time it took
ExecuteQueryEnd ==
    /\ pc = "scan"
    /\ \/ \E e \in DriverErrors :
            /\ Return(Failure(resultRows, Wrap("error iterating rows", e)))
            /\ UNCHANGED executionTime
       \/ \E ms \in ExecutionTimes :
            /\ executionTime' = ms
            /\ Return(Success(columnNames, resultRows, ms))
    /\ UNCHANGED <<others, query, verr, endpoint, wire, req, execCalls, backendCalls,
                   columnNames, resultRows, backendRows, retailers, resp, status,
                   sent, sendFailed, sendIdx, panicked>>

\* what follows the return of ExecuteQuery: GetRetailers builds its response
\* and returns it with a nil error; GetRetailersStream turns a response that
\* carries an error into an Internal status and otherwise starts sending
AfterExecuteQuery(r, err) ==
    /\ resp' = <<r>>
    /\ IF endpoint = "GetRetailers"
       THEN pc' = "done" /\ status' = OK /\ sendIdx' = sendIdx
       ELSE IF r.Error # NoError
       THEN pc' = "done" /\ status' = StreamErrorStatus(r) /\ sendIdx' = sendIdx
       ELSE pc' = "send" /\ status' = status /\ sendIdx' = 1

\* GetRetailers receives what ExecuteQuery returned: an error becomes the
\* error response, a result goes to convertToRetailers
GetRetailersAfterExecute ==
    /\ pc = "executed"
    /\ endpoint \in Endpoints
    /\ IF execReturn[1].err # NoError
       THEN AfterExecuteQuery(ErrorResponse(execReturn[1].err), execReturn[1].err)
       ELSE pc' = "convert" /\ UNCHANGED <<resp, status, sendIdx>>
    /\ UNCHANGED <<others, query, verr, endpoint, wire, req, execCalls, backendCalls,
                   columnNames, resultRows, backendRows, execErr, execReturn,
                   executionTime, retailers, sent, sendFailed, panicked>>

\* convertToRetailers: one turn of the loop over result.Rows; the columns of
\* the row are visited in one of the orders the map iteration can take
ConvertNextRow ==
    /\ pc = "convert"
    /\ Len(retailers.elems) < Len(execReturn[1].result.Rows.elems)
    /\ LET row == execReturn[1].result.Rows.elems[Len(retailers.elems) + 1]
       IN  \E order \in KeyOrders(DOMAIN row) :
             retailers' = AppendSlice(retailers, ConvertRow(row, order))
    /\ UNCHANGED <<others, query, verr, pc, endpoint, wire, req, execCalls,
                   backendCalls, columnNames, resultRows, backendRows, execErr,
                   execReturn, executionTime, resp, status, sent, sendFailed,
                   sendIdx, panicked>>

\* convertToRetailers has returned: GetRetailers builds its response
GetRetailersReturn ==
    /\ pc = "convert"
    /\ Len(retailers.elems) = Len(execReturn[1].result.Rows.elems)
    /\ AfterExecuteQuery(SuccessResponse(retailers, execReturn[1].executionTime), NoError)
    /\ UNCHANGED <<others, query, verr, endpoint, wire, req, execCalls, backendCalls,
                   columnNames, resultRows, backendRows, execErr, execReturn,
                   executionTime, retailers, sent, sendFailed, panicked>>

\* GetRetailersStream: the loop over resp.Retailers
StreamSend ==
    /\ pc = "send"
    /\ sendIdx <= Len(resp[1].Retailers.elems)
    /\ \E delivered \in BOOLEAN :
         IF delivered
         THEN /\ sent' = Append(sent, RetailerMessage(resp[1].Retailers.elems[sendIdx]))
              /\ sendIdx' = sendIdx + 1
              /\ UNCHANGED <<pc, status, sendFailed>>
         ELSE /\ pc' = "done"
              /\ status' = SendError
              /\ sendFailed' = TRUE
              /\ UNCHANGED <<sent, sendIdx>>
    /\ UNCHANGED <<others, query, verr, endpoint, wire, req, execCalls, backendCalls,
                   columnNames, resultRows, backendRows, execErr, execReturn,
                   executionTime, retailers, resp, panicked>>

\* GetRetailersStream: the end marker, whose Send result is the call's result
StreamEnd ==
    /\ pc = "send"
    /\ sendIdx > Len(resp[1].Retailers.elems)
    /\ pc' = "done"
    /\ \E delivered \in BOOLEAN :
         IF delivered
         THEN /\ sent' = Append(sent, EndMessage(resp[1].ExecutionTimeMs))
              /\ status' = OK
              /\ UNCHANGED sendFailed
         ELSE /\ status' = SendError
              /\ sendFailed' = TRUE
              /\ UNCHANGED sent
    /\ UNCHANGED <<others, query, verr, endpoint, wire, req, execCalls, backendCalls,
                   columnNames, resultRows, backendRows, execErr, execReturn,
                   executionTime, retailers, resp, sendIdx, panicked>>

\* a panic raised while the handler runs unwinds through the interceptor the
\* server installed for the endpoint: a recovering interceptor answers with a
\* generic Internal status, any other lets it end the process, and with the
\* process goes all it held
Panic ==
    /\ pc \in {"handler", "execute", "scan", "executed", "convert", "send"}
    /\ panicked' = TRUE
    /\ IF Recovers(InterceptorFor(endpoint))
       THEN /\ pc' = "done"
            /\ status' = StatusError("Internal", <<"internal server error">>)
            /\ resp' = <<>>
            /\ UNCHANGED <<wire, req, execCalls, backendCalls, columnNames,
                           resultRows, backendRows, execErr, execReturn,
                           executionTime, retailers, sent, sendFailed, sendIdx>>
       ELSE /\ pc' = "crashed"
            /\ wire' = ZeroRequest
            /\ req' = ZeroRequest
            /\ execCalls' = <<>>
            /\ backendCalls' = <<>>
            /\ columnNames' = <<>>
            /\ resultRows' = NilSlice
            /\ backendRows' = <<>>
            /\ execErr' = NoError
            /\ execReturn' = <<>>
            /\ executionTime' = 0
            /\ retailers' = NilSlice
            /\ resp' = <<>>
            /\ status' = NoStatus
            /\ sent' = <<>>
            /\ sendFailed' = FALSE
            /\ sendIdx' = 0
    /\ UNCHANGED <<others, query, verr, endpoint>>

Next ==
    \/ \E r \in Requests, ep \in Endpoints : Receive(r, ep)
    \/ Respond
    \/ GetRetailersGate
    \/ ExecuteQueryStart
    \/ ExecuteQueryScan
    \/ ExecuteQueryEnd
    \/ GetRetailersAfterExecute
    \/ ConvertNextRow
    \/ GetRetailersReturn
    \/ StreamSend
    \/ StreamEnd
    \/ Panic

Spec == Init /\ [][Next]_vars

-----------------------------------------------------------------------------
(* Specification SpecConcurrent: NumCallers callers invoke GetRetailers at   *)
(* the same time against a backend that answers every query. gRPC runs each *)
(* call in a goroutine of its own; the steps of the calls interleave.       *)

\* (variant: the request and the result are kept in one place for all calls)
FrameOf_Shared(call) == 1

\* where an invocation keeps req, result and retailers: they are parameters
\* and locals of the invocation, and Handler and Client have no field for them
FrameOf(call) == call

ConcurrentRequests ==
    { [SqlQuery |-> <<>>, Parameters |-> EmptyMap, Limit |-> 0, Offset |-> 0],
      [SqlQuery |-> Text(kwSelect, <<" ">>, wDrop), Parameters |-> EmptyMap,
       Limit |-> 0, Offset |-> 0],
      [SqlQuery |-> Text(kwSelect, <<" ">>, <<"x">>), Parameters |-> EmptyMap,
       Limit |-> MaxLimit + 1, Offset |-> 0],
      [SqlQuery |-> Text(kwSelect, <<" ">>, <<"y">>), Parameters |-> ("1" :> "a"),
       Limit |-> MaxLimit - 1, Offset |-> 2] }

ConcurrentColumns == << cId, cName, cCreatedAt >>

\* the row sets the backend answers with
BackendAnswers ==
    { <<>>,
      << << StringValue("r1"), StringValue("Acme"), TimeValue(1700000000, 5) >> >>,
      << << StringValue("r2"), StringValue("Bolt"), TimeValue(1700000001, 0) >>,
         << StringValue("r3"), NilValue, NilValue >> >> }

\* ExecuteQueryChecks of the texts the callers send
ConcurrentChecks ==
    [q \in {r.SqlQuery : r \in ConcurrentRequests} |-> ExecuteQueryChecks(q)]

InitConcurrent ==
    /\ query = <<>>
    /\ verr = NotRun
    /\ NoRpc
    /\ NoCallers
    /\ NoBenchmark
    /\ NoProcess

\* caller c sends request r: the server starts GetRetailers(ctx, req)
Invoke(c, r) ==
    /\ callPc[c] = "idle"
    /\ callPc' = [callPc EXCEPT ![c] = "handler"]
    /\ sentReq' = [sentReq EXCEPT ![c] = r]
    /\ frames' = [frames EXCEPT ![FrameOf(c)] = [EmptyFrame EXCEPT !.req = r]]
    /\ UNCHANGED <<backend, outcome, notConcurrent>>

\* GetRetailers of call c up to its call of ExecuteQuery
ConcurrentGate(c) ==
    /\ callPc[c] = "handler"
    /\ LET f == frames[FrameOf(c)]
       IN  IF GateStatus(f.req) # NoStatus
           THEN /\ callPc' = [callPc EXCEPT ![c] = "done"]
                /\ outcome' = [outcome EXCEPT ![c] =
                                  <<[status |-> GateStatus(f.req), resp |-> <<>>]>>]
                /\ UNCHANGED frames
           ELSE /\ callPc' = [callPc EXCEPT ![c] = "execute"]
                /\ frames' = [frames EXCEPT ![FrameOf(c)].req.Limit = ClampLimit(f.req.Limit)]
                /\ UNCHANGED outcome
    /\ UNCHANGED <<sentReq, backend, notConcurrent>>

\* ExecuteQuery of call c: the checks, the query and the scan of its rows
ConcurrentExecute(c) ==
    /\ callPc[c] = "execute"
    /\ LET r == frames[FrameOf(c)].req
           err == ConcurrentChecks[r.SqlQuery]
       IN  IF err # NoError
           THEN /\ callPc' = [callPc EXCEPT ![c] = "done"]
                /\ outcome' = [outcome EXCEPT ![c] =
                                  <<[status |-> OK, resp |-> <<ErrorResponse(err)>>]>>]
                /\ UNCHANGED <<frames, backend>>
           ELSE \E answer \in BackendAnswers :
                /\ backend' = [backend EXCEPT ![c] =
                      <<[query |-> FinalQuery(r.SqlQuery, r.Parameters, r.Limit, r.Offset),
                         answer |-> answer]>>]
                /\ frames' = [frames EXCEPT ![FrameOf(c)].rows =
                      [isNil |-> answer = <<>>,
                       elems |-> [i \in 1..Len(answer) |->
                                     RowMap(ConcurrentColumns, answer[i])]]]
                /\ callPc' = [callPc EXCEPT ![c] = "convert"]
                /\ UNCHANGED outcome
    /\ UNCHANGED <<sentReq, notConcurrent>>

\* convertToRetailers of call c: one turn of the loop over result.Rows
ConcurrentConvert(c) ==
    /\ callPc[c] = "convert"
    /\ LET f == frames[FrameOf(c)]
       IN  /\ Len(f.retailers.elems) < Len(f.rows.elems)
           /\ \E order \in KeyOrders(DOMAIN f.rows.elems[Len(f.retailers.elems) + 1]) :
                frames' = [frames EXCEPT ![FrameOf(c)].retailers =
                   AppendSlice(f.retailers,
                       ConvertRow(f.rows.elems[Len(f.retailers.elems) + 1], order))]
    /\ UNCHANGED <<callPc, sentReq, backend, outcome, notConcurrent>>

\* GetRetailers of call c builds its response and returns it
ConcurrentReturn(c) ==
    /\ callPc[c] = "convert"
    /\ LET f == frames[FrameOf(c)]
       IN  /\ Len(f.retailers.elems) >= Len(f.rows.elems)
           /\ \E ms \in ExecutionTimes :
                outcome' = [outcome EXCEPT ![c] =
                   <<[status |-> OK, resp |-> <<SuccessResponse(f.retailers, ms)>>]>>]
    /\ callPc' = [callPc EXCEPT ![c] = "done"]
    /\ UNCHANGED <<frames, sentReq, backend, notConcurrent>>

CallStep(c) ==
    \/ ConcurrentGate(c)
    \/ ConcurrentExecute(c)
    \/ ConcurrentConvert(c)
    \/ ConcurrentReturn(c)

NextConcurrent ==
    \/ \E c \in Callers, r \in ConcurrentRequests : Invoke(c, r)
    \/ \E c \in Callers : ConcurrentGate(c)
    \/ \E c \in Callers : ConcurrentExecute(c)
    \/ \E c \in Callers : ConcurrentConvert(c)
    \/ \E c \in Callers : ConcurrentReturn(c)

\* every caller makes its call and every goroutine that can take a step is
\* scheduled; the backend answers every query
SpecConcurrent ==
    /\ InitConcurrent
    /\ [][NextConcurrent]_vars
    /\ \A c \in Callers : WF_vars(\E r \in ConcurrentRequests : Invoke(c, r))
    /\ \A c \in Callers : WF_vars(CallStep(c))

-----------------------------------------------------------------------------
(* Specification SpecExecute: one call of Client.ExecuteQuery, made with    *)
(* arguments of any kind, the ones GetRetailers would refuse included       *)

\* ExecuteQuery has just been called with arguments a
InitExecute ==
    /\ \E a \in ExecuteArguments : execCalls = <<a>>
    /\ pc = "execute"
    /\ query = <<>>
    /\ verr = NotRun
    /\ endpoint = "none"
    /\ wire = ZeroRequest
    /\ req = ZeroRequest
    /\ backendCalls = <<>>
    /\ columnNames = <<>>
    /\ resultRows = NilSlice
    /\ backendRows = <<>>
    /\ execErr = NoError
    /\ execReturn = <<>>
    /\ executionTime = 0
    /\ retailers = NilSlice
    /\ resp = <<>>
    /\ status = NoStatus
    /\ sent = <<>>
    /\ sendFailed = FALSE
    /\ sendIdx = 0
    /\ panicked = FALSE
    /\ NoOthers

NextExecute ==
    \/ ExecuteQueryStart
    \/ ExecuteQueryScan
    \/ ExecuteQueryEnd

\* the goroutine that runs ExecuteQuery keeps running, and each call into
\* database/sql comes back: with an answer, with the backend's failure, or
\* with the context's error once its deadline passes or it is cancelled
SpecExecute ==
    /\ InitExecute
    /\ [][NextExecute]_vars
    /\ WF_vars(NextExecute)

-----------------------------------------------------------------------------
(* Specification SpecBenchmark: runBenchmark starts numRequests goroutines, *)
(* each of which passes the semaphore channel before it calls GetRetailers  *)

\* (variant: the channel takes any number of elements)
CanSend_Unbounded(held) == TRUE

\* semaphore <- struct{}{} on make(chan struct{}, concurrency): the send goes
\* through while the buffer has room and blocks otherwise
CanSend(held) == held < Concurrency

\* what client.GetRetailers gives back: a response, a response that carries
\* an error, or an error
CallResults == {"response", "response with error", "error"}

InitBenchmark ==
    /\ query = <<>>
    /\ verr = NotRun
    /\ NoRpc
    /\ NoCallers
    /\ NoBenchmark
    /\ NoProcess

\* one turn of the loop: wg.Add(1); go func() {...}()
Launch ==
    /\ benchPc = "loop"
    /\ launched < NumRequests
    /\ launched' = launched + 1
    /\ wg' = wg + 1
    /\ worker' = [worker EXCEPT ![launched + 1] = "start"]
    /\ UNCHANGED <<benchPc, semaphore, mu, durations, errors, notBenchmark>>

\* the loop ends: runBenchmark goes on to wg.Wait()
LoopEnd ==
    /\ benchPc = "loop"
    /\ launched = NumRequests
    /\ benchPc' = "wait"
    /\ UNCHANGED <<launched, worker, semaphore, wg, mu, durations, errors, notBenchmark>>

\* semaphore <- struct{}{}
Acquire(g) ==
    /\ worker[g] = "start"
    /\ CanSend(semaphore)
    /\ semaphore' = semaphore + 1
    /\ worker' = [worker EXCEPT ![g] = "acquired"]
    /\ UNCHANGED <<benchPc, launched, wg, mu, durations, errors, notBenchmark>>

\* client.GetRetailers(ctx, ...) is issued
Call(g) ==
    /\ worker[g] = "acquired"
    /\ worker' = [worker EXCEPT ![g] = "calling"]
    /\ UNCHANGED <<benchPc, launched, semaphore, wg, mu, durations, errors, notBenchmark>>

\* client.GetRetailers returns
CallReturns(g, result) ==
    /\ worker[g] = "calling"
    /\ worker' = [worker EXCEPT ![g] = result]
    /\ UNCHANGED <<benchPc, launched, semaphore, wg, mu, durations, errors, notBenchmark>>

\* mu.Lock()
Lock(g) ==
    /\ worker[g] \in CallResults
    /\ mu = 0
    /\ mu' = g
    /\ UNCHANGED <<benchPc, launched, worker, semaphore, wg, durations, errors, notBenchmark>>

\* the result is recorded; mu.Unlock()
Record(g) ==
    /\ worker[g] \in CallResults
    /\ mu = g
    /\ durations' = durations + 1
    /\ errors' = IF worker[g] = "response" THEN errors ELSE errors + 1
    /\ mu' = 0
    /\ worker' = [worker EXCEPT ![g] = "recorded"]
    /\ UNCHANGED <<benchPc, launched, semaphore, wg, notBenchmark>>

\* the deferred func() { <-semaphore }()
Release(g) ==
    /\ worker[g] = "recorded"
    /\ semaphore' = semaphore - 1
    /\ worker' = [worker EXCEPT ![g] = "released"]
    /\ UNCHANGED <<benchPc, launched, wg, mu, durations, errors, notBenchmark>>

\* the deferred wg.Done()
Done(g) ==
    /\ worker[g] = "released"
    /\ wg' = wg - 1
    /\ worker' = [worker EXCEPT ![g] = "done"]
    /\ UNCHANGED <<benchPc, launched, semaphore, mu, durations, errors, notBenchmark>>

\* wg.Wait() returns
Wait ==
    /\ benchPc = "wait"
    /\ wg = 0
    /\ benchPc' = "done"
    /\ UNCHANGED <<launched, worker, semaphore, wg, mu, durations, errors, notBenchmark>>

NextBenchmark ==
    \/ Launch
    \/ LoopEnd
    \/ \E g \in Workers : Acquire(g)
    \/ \E g \in Workers : Call(g)
    \/ \E g \in Workers, result \in CallResults : CallReturns(g, result)
    \/ \E g \in Workers : Lock(g)
    \/ \E g \in Workers : Record(g)
    \/ \E g \in Workers : Release(g)
    \/ \E g \in Workers : Done(g)
    \/ Wait

SpecBenchmark == InitBenchmark /\ [][NextBenchmark]_vars

-----------------------------------------------------------------------------
(* Specification SpecServer: a run of the server process, from main's call  *)
(* of clickhouse.NewClient to the end of the process                        *)

CallIds == 1..MaxCalls

\* (variant: the server is stopped without waiting for its calls)
Drained_NoWait(calls) == TRUE

\* grpcServer.GracefulStop() returns once no accepted call is left running
Drained(calls) == DOMAIN calls = {}

\* the ways the process ends
Exits ==
    { "exit: NewClient failed", "exit: Start failed", "exit: Serve failed",
      "exit: panic", "exit: main returned" }

Exited == proc \in Exits

InitServer ==
    /\ query = <<>>
    /\ verr = NotRun
    /\ NoRpc
    /\ NoCallers
    /\ NoBenchmark
    /\ NoProcess

\* one invocation of Client.Close; the calls still running lose the handle
ClientClose ==
    /\ closeCalls' = closeCalls + 1
    /\ dbOpen' = FALSE
    /\ closedBusy' = (closedBusy \/ DOMAIN inflight # {})

\* main: clickhouse.NewClient; a failure ends the process through log.Fatalf,
\* a success registers the deferred Close
NewClient ==
    /\ proc = "connect"
    /\ \/ /\ proc' = "exit: NewClient failed"
          /\ UNCHANGED dbOpen
       \/ /\ proc' = "start"
          /\ dbOpen' = TRUE
    /\ UNCHANGED <<serving, inflight, accepted, signalled, closeCalls, closedBusy,
                   notServer>>

\* Server.Start: net.Listen, then the goroutine that serves. When the
\* listener cannot be bound Start returns the error and main ends the
\* process through log.Fatalf, which runs no deferred function
Start ==
    /\ proc = "start"
    /\ \/ /\ proc' = "exit: Start failed"
          /\ UNCHANGED serving
       \/ /\ proc' = "serving"
          /\ serving' = TRUE
    /\ UNCHANGED <<inflight, accepted, signalled, dbOpen, closeCalls, closedBusy,
                   notServer>>

\* grpcServer.Serve returns an error: log.Fatalf in its goroutine
ServeFails ==
    /\ proc = "serving"
    /\ proc' = "exit: Serve failed"
    /\ serving' = FALSE
    /\ inflight' = <<>>
    /\ UNCHANGED <<accepted, signalled, dbOpen, closeCalls, closedBusy, notServer>>

\* the server accepts a call and runs its handler in a goroutine
Accept ==
    /\ ~Exited
    /\ serving
    /\ accepted < MaxCalls
    /\ accepted' = accepted + 1
    /\ inflight' = (inflight @@ ((accepted + 1) :> "handler"))
    /\ UNCHANGED <<proc, serving, signalled, dbOpen, closeCalls, closedBusy, notServer>>

\* the handler of call id is in ExecuteQuery, on the backend connection
Query(id) ==
    /\ ~Exited
    /\ id \in DOMAIN inflight
    /\ inflight[id] = "handler"
    /\ inflight' = [inflight EXCEPT ![id] = "query"]
    /\ UNCHANGED <<proc, serving, accepted, signalled, dbOpen, closeCalls, closedBusy,
                   notServer>>

\* the handler of call id returns
Finish(id) ==
    /\ ~Exited
    /\ id \in DOMAIN inflight
    /\ inflight' = [i \in DOMAIN inflight \ {id} |-> inflight[i]]
    /\ UNCHANGED <<proc, serving, accepted, signalled, dbOpen, closeCalls, closedBusy,
                   notServer>>

\* the handler of call id panics: with the interceptors Start installs the
\* panic ends the process
HandlerPanics(id) ==
    /\ ~Exited
    /\ id \in DOMAIN inflight
    /\ ~Recovers(ServerOptions.UnaryInterceptor)
    /\ proc' = "exit: panic"
    /\ serving' = FALSE
    /\ inflight' = <<>>
    /\ UNCHANGED <<accepted, signalled, dbOpen, closeCalls, closedBusy, notServer>>

\* waitForShutdown: a signal arrives on sigChan and Stop is called
Signal ==
    /\ proc = "serving"
    /\ signalled' = TRUE
    /\ proc' = "stop"
    /\ UNCHANGED <<serving, inflight, accepted, dbOpen, closeCalls, closedBusy, notServer>>

\* Stop: grpcServer.GracefulStop() closes the listeners
GracefulStopBegins ==
    /\ proc = "stop"
    /\ serving' = FALSE
    /\ proc' = "drain"
    /\ UNCHANGED <<inflight, accepted, signalled, dbOpen, closeCalls, closedBusy,
                   notServer>>

\* Stop: grpcServer.GracefulStop() returns
GracefulStopReturns ==
    /\ proc = "drain"
    /\ Drained(inflight)
    /\ proc' = "close"
    /\ UNCHANGED <<serving, inflight, accepted, signalled, dbOpen, closeCalls,
                   closedBusy, notServer>>

\* Stop: s.clickhouseClient.Close(); Stop, waitForShutdown and Start return
StopCloses ==
    /\ proc = "close"
    /\ ClientClose
    /\ proc' = "main returns"
    /\ UNCHANGED <<serving, inflight, accepted, signalled, notServer>>

\* main returns: the deferred clickhouseClient.Close() runs
MainReturns ==
    /\ proc = "main returns"
    /\ ClientClose
    /\ proc' = "exit: main returned"
    /\ inflight' = <<>>
    /\ UNCHANGED <<serving, accepted, signalled, notServer>>

NextServer ==
    \/ NewClient
    \/ Start
    \/ ServeFails
    \/ Accept
    \/ \E id \in CallIds : Query(id)
    \/ \E id \in CallIds : Finish(id)
    \/ \E id \in CallIds : HandlerPanics(id)
    \/ Signal
    \/ GracefulStopBegins
    \/ GracefulStopReturns
    \/ StopCloses
    \/ MainReturns

SpecServer == InitServer /\ [][NextServer]_vars

-----------------------------------------------------------------------------
(* The SQL texts the validator is run on: a head followed by up to         *)
(* MaxTokens tokens, concatenated without anything in between.             *)

UpperOf ==
    [c \in {LowerCase[i] : i \in 1..Len(LowerCase)} |->
        UpperCase[CHOOSE i \in 1..Len(LowerCase) : LowerCase[i] = c]]

ToUpperChar(c) == IF c \in DOMAIN UpperOf THEN UpperOf[c] ELSE c

ToUpper(s) == [i \in 1..Len(s) |-> ToUpperChar(s[i])]

\* how a text starts: with nothing, with the keyword, with the keyword after
\* white space, with the keyword inside a longer word
Heads == { <<>>, kwSelect,
           <<" ", "\t", "S","e","L","e","C","t">>,
           <<"x">> \o kwSelect }

BaseTokens == { <<" ">>, <<"\t">>, <<";">>, <<"x">> }

\* the vocabulary that goes with blacklist entry k: the entry itself, without
\* its padding, in lower and in upper case
Tokens(k) ==
    LET word == TrimSpace(dangerousKeywords[k])
    IN  BaseTokens \cup {word, ToUpper(word)}

RECURSIVE TextsOfLen(_, _)
TextsOfLen(k, n) ==
    IF n = 0 THEN {<<>>}
    ELSE {p \o t : p \in TextsOfLen(k, n - 1), t \in Tokens(k)}

\* the text made of head h and n tokens of the vocabulary of entry k
TextsFor(k, h, n) == {h \o body : body \in TextsOfLen(k, n)}

-----------------------------------------------------------------------------
(* Specification SpecValidate: ValidateQuery applied to one SQL text *)

InitValidate ==
    /\ \E k \in 1..Len(dangerousKeywords), h \in Heads, n \in 0..MaxTokens :
          query \in TextsFor(k, h, n)
    /\ verr = NotRun
    /\ NoRpc
    /\ NoOthers

Validate ==
    /\ verr = NotRun
    /\ verr' = ValidateQuery(query)
    /\ UNCHANGED <<others, query, pc, endpoint, wire, req, execCalls, backendCalls,
                   columnNames, resultRows, backendRows, execErr, execReturn, executionTime, retailers,
                   resp, status, sent, sendFailed,
                   sendIdx, panicked>>

NextValidate == Validate

SpecValidate == InitValidate /\ [][NextValidate]_vars
-----------------------------------------------------------------------------
(* Claims about ValidateQuery, checked under SpecValidate *)

IsLetter(c, l) == c = l \/ c = ToUpperChar(l)

\* the text has the letters s,e,l,e,c,t, in either case, right after its
\* leading white space
BeginsWithSelect(q) ==
    \E i \in 1..Len(q) :
        /\ \A j \in 1..(i - 1) : q[j] \in WhiteSpace
        /\ i + Len(kwSelect) - 1 <= Len(q)
        /\ \A j \in 1..Len(kwSelect) : IsLetter(q[i + j - 1], kwSelect[j])

Validated == verr # NotRun
Accepted == Validated /\ verr = NoError
Rejected == Validated /\ verr # NoError

\* C1: a text that does not begin with "select" (in any letter case, after
\* its leading white space) is rejected, whatever else it contains.
C1_NonSelectRejected ==
    (Validated /\ ~BeginsWithSelect(query)) => Rejected

\* a rejected text that holds the word select, but not at its start
C1_Witness ==
    /\ Rejected
    /\ ~BeginsWithSelect(query)
    /\ \E i \in 2..Len(query) : BeginsWithSelect(SubSeq(query, i, Len(query)))
    /\ verr = <<"only SELECT queries are allowed">>

WordChars == Range(LowerCase) \cup Range(UpperCase) \cup
             {"0","1","2","3","4","5","6","7","8","9","_"}

\* blacklist entry k stands in the text as a whole word or phrase: its
\* letters, in any case, with no word character right before or right after
HoldsWholeWord(q, k) ==
    LET word == TrimSpace(dangerousKeywords[k])
        n == Len(word)
    IN  \E i \in 1..(Len(q) - n + 1) :
            /\ ToLower(SubSeq(q, i, i + n - 1)) = word
            /\ i > 1 => q[i - 1] \notin WordChars
            /\ i + n <= Len(q) => q[i + n] \notin WordChars

\* C2: a text that holds a blacklisted keyword or phrase as a whole word, in
\* any letter case, is rejected.
C2_BlacklistedWordRejected ==
    (Validated /\ \E k \in 1..Len(dangerousKeywords) : HoldsWholeWord(query, k))
        => Rejected


\* the words of the blacklist entries, without the spaces around them
EntryWords == [k \in 1..Len(dangerousKeywords) |-> TrimSpace(dangerousKeywords[k])]

\* the entries of the blacklist that are one keyword and those that are a
\* phrase of two words
Singles == {k \in 1..Len(dangerousKeywords) :
               \A j \in 1..Len(EntryWords[k]) : EntryWords[k][j] # " "}
Phrases == (1..Len(dangerousKeywords)) \ Singles

\* the places where entry k stands in a text given in lower case
Occurrences(q, k) ==
    {i \in 1..(Len(q) - Len(EntryWords[k]) + 1) :
        \A j \in 1..Len(EntryWords[k]) : q[i + j - 1] = EntryWords[k][j]}

\* the occurrence of entry k at place i is part of a longer word
EmbeddedAt(q, k, i) ==
    \/ i > 1 /\ q[i - 1] \in WordChars
    \/ i + Len(EntryWords[k]) <= Len(q) /\ q[i + Len(EntryWords[k])] \in WordChars

\* C17 as stated: a SELECT text in which every occurrence of every blacklist
\* entry, keyword or phrase, is part of a longer word is accepted.
C17_NoFalsePositive ==
    (Validated /\ BeginsWithSelect(query)) =>
        \A lower \in {ToLower(query)} :
            (\A k \in 1..Len(dangerousKeywords) :
                \A i \in Occurrences(lower, k) : EmbeddedAt(lower, k, i))
            => Accepted

\* C17: a SELECT text in which every occurrence of a single blacklisted
\* keyword is part of a longer word, and in which no blacklisted phrase
\* occurs, is accepted; a SELECT text in which a blacklisted phrase occurs is
\* rejected, part of longer words or not.
C17_EmbeddedKeywordAccepted ==
    (Validated /\ BeginsWithSelect(query)) =>
        \A lower \in {ToLower(query)} :
            IF \E k \in Phrases : Occurrences(lower, k) # {}
            THEN Rejected
            ELSE (\A k \in Singles :
                     \A i \in Occurrences(lower, k) : EmbeddedAt(lower, k, i))
                 => Accepted

\* "select xdrop": the keyword inside a longer word, accepted
C17_Witness ==
    /\ Accepted
    /\ query = kwSelect \o <<" ">> \o <<"x">> \o wDrop

\* "select xdrop tablex": the phrase inside longer words, rejected
C17_WitnessPhrase ==
    /\ Rejected
    /\ query = kwSelect \o <<" ">> \o <<"x">> \o Phrase(wDrop, wTable) \o <<"x">>
    /\ verr = <<"query contains forbidden keyword", "drop table">>
-----------------------------------------------------------------------------
(* Claims about the handlers, checked under Spec *)

Min(a, b) == IF a < b THEN a ELSE b

\* the validation gate of the RPC being served has been gone through
GateDone ==
    /\ pc \notin {"idle", "handler"}
    /\ ~(panicked /\ execCalls = <<>>)

\* the RPC has returned to its caller without a panic
Returned == pc = "done" /\ ~panicked

\* C3: a request with limit > 10000 (non-empty sql_text, offset >= 0) is not
\* rejected and ExecuteQuery gets the limit 10000; every limit that reaches
\* ExecuteQuery lies in 0..10000 and is min(requested limit, 10000).
C3_LimitClamped ==
    /\ (GateDone /\ wire.Limit > MaxLimit /\ wire.SqlQuery # <<>> /\ wire.Offset >= 0)
          => /\ status.code # "InvalidArgument"
             /\ Len(execCalls) = 1
             /\ execCalls[1].limit = MaxLimit
    /\ \A i \in 1..Len(execCalls) :
          /\ execCalls[i].limit \in 0..MaxLimit
          /\ execCalls[i].limit = Min(wire.Limit, MaxLimit)

\* a request that asked for the largest int32 limit has been served with 10000
C3_Witness ==
    /\ Returned
    /\ wire.Limit = MaxInt32
    /\ status = OK
    /\ Len(execCalls) = 1 /\ execCalls[1].limit = MaxLimit
    /\ Len(backendCalls) = 1 /\ backendCalls[1].limit = <<MaxLimit>>

\* C4: a request with empty sql_text, negative limit or negative offset ends
\* with an InvalidArgument status and no response, and neither ExecuteQuery
\* nor the backend is invoked for it.
C4_InvalidRejected ==
    (GateDone /\ (wire.SqlQuery = <<>> \/ wire.Limit < 0 \/ wire.Offset < 0))
        => /\ pc = "done"
           /\ status.code = "InvalidArgument"
           /\ resp = <<>>
           /\ execCalls = <<>>
           /\ backendCalls = <<>>

\* a request whose only fault is a negative offset has been rejected
C4_Witness ==
    /\ Returned
    /\ endpoint = "GetRetailers"
    /\ wire.SqlQuery # <<>> /\ wire.Limit >= 0 /\ wire.Offset < 0
    /\ status = StatusError("InvalidArgument", <<"offset cannot be negative">>)
    /\ backendCalls = <<>>

\* two names are equal but for the case of their letters
EqualFold(a, b) ==
    /\ Len(a) = Len(b)
    /\ \A i \in 1..Len(a) : ToUpperChar(a[i]) = ToUpperChar(b[i])

\* the columns of a row map that can fill a field: named like the field, in
\* any case, with a non-null value of the field's type
Fillers(row, field, type) ==
    {c \in DOMAIN row : EqualFold(c, field) /\ row[c].type = type}

\* a field is set if and only if something can fill it, and then holds one
\* of the values that can
FieldIs(value, fills) ==
    IF fills = {} THEN value = <<>> ELSE \E v \in fills : value = <<v>>

\* the record is what the row map calls for
MapsRow(row, retailer) ==
    /\ FieldIs(retailer.Id, {row[c].str : c \in Fillers(row, cId, "string")})
    /\ FieldIs(retailer.Name, {row[c].str : c \in Fillers(row, cName, "string")})
    /\ FieldIs(retailer.CreatedAt,
               {[seconds |-> row[c].sec, nanos |-> row[c].nsec] :
                   c \in Fillers(row, cCreatedAt, "time.Time")})

\* C5: the mapper raises no error, and a field of the record it makes of a
\* row is set if and only if the row has a column named id, name or created_at
\* in any letter case whose value is non-null and of the field's type; the
\* field then holds such a column's value.
C5_MapperFillsKnownColumns ==
    /\ Len(retailers.elems) <= Len(resultRows.elems)
    /\ \A i \in 1..Len(retailers.elems) :
          MapsRow(resultRows.elems[i], retailers.elems[i])
    /\ retailers.elems # <<>> =>
          /\ execErr = NoError
          /\ resp # <<>> => resp[1].Error = NoError

\* the row {"ID": "r1", "NAME": "Acme", "CREATED_AT": t} has been mapped
C5_Witness ==
    /\ Len(retailers.elems) = 1
    /\ DOMAIN resultRows.elems[1] =
          { <<"I","D">>, <<"N","A","M","E">>,
            <<"C","R","E","A","T","E","D","_","A","T">> }
    /\ retailers.elems[1] =
          [Id |-> <<"r1">>, Name |-> <<"Acme">>,
           CreatedAt |-> <<[seconds |-> 1700000000, nanos |-> 5]>>]

\* a row with an unknown column, a null name and a created_at of the wrong
\* type has been mapped to a record with no field set
C5_WitnessUnknownColumn ==
    /\ Len(retailers.elems) = 1
    /\ \E c \in DOMAIN resultRows.elems[1] :
          /\ ~EqualFold(c, cId) /\ ~EqualFold(c, cName) /\ ~EqualFold(c, cCreatedAt)
          /\ resultRows.elems[1][c].type = "int64"
    /\ \E c \in DOMAIN resultRows.elems[1] :
          EqualFold(c, cCreatedAt) /\ resultRows.elems[1][c].type = "string"
    /\ retailers.elems[1] = EmptyRetailer

\* the positions of a backend row that count: a column name met again
\* further right replaces the value met before
Effective(names) ==
    {j \in 1..Len(names) : \A k \in (j + 1)..Len(names) : names[k] # names[j]}

Sources(names, values, field, type) ==
    {j \in Effective(names) : EqualFold(names[j], field) /\ values[j].type = type}

\* the record is what the backend row calls for
Derives(names, values, retailer) ==
    /\ FieldIs(retailer.Id,
               {values[j].str : j \in Sources(names, values, cId, "string")})
    /\ FieldIs(retailer.Name,
               {values[j].str : j \in Sources(names, values, cName, "string")})
    /\ FieldIs(retailer.CreatedAt,
               {[seconds |-> values[j].sec, nanos |-> values[j].nsec] :
                   j \in Sources(names, values, cCreatedAt, "time.Time")})

\* the RPC has a response that carries no error
Succeeded == resp # <<>> /\ resp[1].Error = NoError

\* C6: a response without error carries a non-nil retailers sequence with one
\* record per backend row, in the backend's row order, and count is its
\* length; with zero rows the sequence is empty, not nil, and count is 0.
C6_OneRecordPerRow ==
    Succeeded =>
        /\ ~resp[1].Retailers.isNil
        /\ Len(resp[1].Retailers.elems) = Len(backendRows)
        /\ resp[1].Count = Len(resp[1].Retailers.elems)
        /\ \A i \in 1..Len(backendRows) :
              Derives(columnNames, backendRows[i], resp[1].Retailers.elems[i])

\* the backend returned no row and the response has an empty sequence
C6_Witness ==
    /\ Returned
    /\ Succeeded
    /\ Len(backendCalls) = 1
    /\ backendRows = <<>>
    /\ resp[1].Retailers = EmptySlice
    /\ resp[1].Count = 0

\* two different backend rows have been answered with two records
C6_WitnessOrder ==
    /\ Returned /\ Succeeded
    /\ Len(backendRows) = 2
    /\ backendRows[1] # backendRows[2]
    /\ resp[1].Retailers.elems[1] # resp[1].Retailers.elems[2]

\* the RPC was let through the gate: ExecuteQuery has been called for it
PassedGate == Len(execCalls) = 1

\* C7: GetRetailers returns OK with a response whenever ExecuteQuery was
\* called; when ExecuteQuery failed the response has a non-empty error and no
\* retailers, count or execution time, and when it succeeded the error is
\* empty.
C7_ErrorEmbeddedInResponse ==
    (Returned /\ endpoint = "GetRetailers" /\ PassedGate)
        => /\ status = OK
           /\ resp # <<>>
           /\ execErr # NoError =>
                 /\ resp[1].Error # NoError
                 /\ resp[1].Error = execErr
                 /\ resp[1].Retailers = NilSlice
                 /\ resp[1].Count = 0
                 /\ resp[1].ExecutionTimeMs = 0
           /\ execErr = NoError => resp[1].Error = NoError

\* a row had been read when the scan of the next one failed, and the caller
\* got OK with the error in the response
C7_Witness ==
    /\ Returned /\ endpoint = "GetRetailers" /\ PassedGate
    /\ execErr # NoError /\ execErr[1] = "failed to scan row"
    /\ Len(backendRows) = 1
    /\ status = OK
    /\ resp[1].Error = execErr

\* the validator turned the query down and the caller got OK with the error
\* in the response
C7_WitnessPolicy ==
    /\ Returned /\ endpoint = "GetRetailers" /\ PassedGate
    /\ execErr # NoError /\ execErr[1] = "invalid query"
    /\ backendCalls = <<>>
    /\ status = OK

\* C8, as the specification states it: on either endpoint, a request let
\* through the gate ends with an OK status even when the validator rejects
\* the query or the backend fails.
C8_NeverTransportFailure ==
    (Returned /\ PassedGate /\ execErr # NoError) => status = OK

\* C8, amended: when ExecuteQuery fails, GetRetailers ends with an OK status
\* and the error in its response, and GetRetailersStream ends with an Internal
\* status whose message is that error, having sent no message.
C8_StreamFailsWithInternal ==
    (Returned /\ PassedGate /\ execErr # NoError)
        => IF endpoint = "GetRetailers"
           THEN status = OK /\ resp # <<>> /\ resp[1].Error = execErr
           ELSE /\ status.code = "Internal"
                /\ status.msg = execErr
                /\ sent = <<>>

\* the validator turned down the query of a streaming call
C8_Witness ==
    /\ Returned /\ PassedGate
    /\ endpoint = "GetRetailersStream"
    /\ execErr # NoError /\ execErr[1] = "invalid query"
    /\ status.code = "Internal"

IsStream == endpoint = "GetRetailersStream"

\* C9: the messages a streaming call has sent are the mapped records, one
\* message each, in result order, with is_last false and no execution time;
\* the end marker (is_last true, no retailer, the execution time) is the last
\* message of a call that ended OK and follows all the records; a call in
\* which a send or the execution failed ends with an error and has sent no
\* end marker.
C9_StreamProtocol ==
    IsStream =>
        /\ \A i \in 1..Len(sent) :
              IF sent[i].IsLast
              THEN /\ i = Len(sent)
                   /\ pc = "done" /\ status = OK
                   /\ i = Len(retailers.elems) + 1
                   /\ sent[i].Retailer = <<>>
                   /\ sent[i].ExecutionTimeMs = executionTime
              ELSE /\ i <= Len(retailers.elems)
                   /\ sent[i].Retailer = <<retailers.elems[i]>>
                   /\ sent[i].ExecutionTimeMs = 0
        /\ (Returned /\ status = OK) =>
              /\ Len(sent) = Len(retailers.elems) + 1
              /\ sent[Len(sent)].IsLast
              /\ Len(retailers.elems) = Len(backendRows)
        /\ (Returned /\ (sendFailed \/ execErr # NoError)) =>
              /\ status.code # "OK"
              /\ \A i \in 1..Len(sent) : ~sent[i].IsLast

\* a streaming call has ended OK after two records and the end marker
C9_Witness ==
    /\ IsStream /\ Returned /\ status = OK
    /\ Len(sent) = 3
    /\ sent[1].Retailer # sent[2].Retailer
    /\ sent[3].IsLast /\ sent[3].ExecutionTimeMs = 12

\* a send failed after a record had gone out
C9_WitnessSendFailure ==
    /\ IsStream /\ Returned /\ sendFailed
    /\ Len(sent) = 1
    /\ status.code # "OK"

\* C10: a panic raised while an RPC is handled is answered with a generic
\* Internal status ("internal server error") and goes no further than the
\* interceptors Server.Start installed.
C10_PanicRecovered ==
    panicked =>
        /\ pc = "done"
        /\ status = StatusError("Internal", <<"internal server error">>)
        /\ resp = <<>>


-----------------------------------------------------------------------------
(* Concurrent callers *)

\* what call c must get back, given only the request it sent and the rows the
\* backend answered its own query with
OwnOutcome(c) ==
    LET s == sentReq[c]
        o == outcome[c][1]
    IN  /\ outcome[c] # <<>>
        /\ IF GateStatus(s) # NoStatus
           THEN o = [status |-> GateStatus(s), resp |-> <<>>] /\ backend[c] = <<>>
           ELSE IF ExecuteQueryChecks(s.SqlQuery) # NoError
           THEN /\ o = [status |-> OK,
                        resp |-> <<ErrorResponse(ExecuteQueryChecks(s.SqlQuery))>>]
                /\ backend[c] = <<>>
           ELSE /\ backend[c] # <<>>
                /\ o.status = OK
                /\ o.resp # <<>>
                /\ o.resp[1].Error = NoError
                /\ ~o.resp[1].Retailers.isNil
                /\ o.resp[1].Count = Len(backend[c][1].answer)
                /\ Len(o.resp[1].Retailers.elems) = Len(backend[c][1].answer)
                /\ \A i \in 1..Len(backend[c][1].answer) :
                      Derives(ConcurrentColumns, backend[c][1].answer[i],
                              o.resp[1].Retailers.elems[i])

\* the query the backend got for call c is made of c's request alone
OwnQuery(c) ==
    LET s == sentReq[c]
    IN  backend[c] # <<>> =>
          /\ backend[c][1].query.text = s.SqlQuery
          /\ backend[c][1].query.args = BindParameters(s.Parameters)
          /\ backend[c][1].query.limit =
                (IF Min(s.Limit, MaxLimit) > 0 THEN <<Min(s.Limit, MaxLimit)>> ELSE <<>>)
          /\ backend[c][1].query.offset = (IF s.Offset > 0 THEN <<s.Offset>> ELSE <<>>)

AllCallsDone == \A c \in Callers : callPc[c] = "done"

\* C11: with NumCallers concurrent callers and a backend that answers, under
\* every interleaving each call's backend query is made of its own request
\* (text, arguments, clamped limit, offset), each finished call's status,
\* records and count are those its own request and its own backend rows call
\* for, and all the calls finish.
C11_ConcurrentCallsIsolated ==
    /\ [](\A c \in Callers : OwnQuery(c) /\ (callPc[c] = "done" => OwnOutcome(c)))
    /\ <>AllCallsDone

\* two calls in flight at once, one past its query and one before it, for
\* different requests
C11_WitnessInFlight ==
    /\ callPc[1] = "convert" /\ callPc[2] = "execute"
    /\ sentReq[1] # sentReq[2]
    /\ sentReq[1].Limit > MaxLimit
    /\ Len(backend[1][1].answer) = 2

\* both calls finished, each with the rows of its own query
C11_Witness ==
    /\ AllCallsDone
    /\ sentReq[1].Limit > MaxLimit /\ sentReq[2].Limit = MaxLimit - 1
    /\ backend[1] # <<>> /\ backend[2] # <<>>
    /\ outcome[1][1].resp[1].Count = 2
    /\ outcome[2][1].resp[1].Count = 1

-----------------------------------------------------------------------------
(* Client.ExecuteQuery called on its own *)

ExecuteQueryReturned == pc = "executed" /\ execReturn # <<>>

BackendFailures ==
    { "failed to execute query", "failed to get column names",
      "failed to scan row", "error iterating rows" }

\* C12: whenever the query start, the column read, a row scan or the row
\* iteration fails (backend failure, deadline exceeded, cancellation),
\* ExecuteQuery returns that error wrapped, with a nil result and execution
\* time 0, whatever rows it had read; a result is only ever returned without
\* an error and then holds every row the backend yielded; and every call of
\* ExecuteQuery returns.
C12_FailureReturnsNothing ==
    /\ [](ExecuteQueryReturned =>
            /\ execReturn[1].err = execErr
            /\ (execErr # NoError /\ backendCalls # <<>>) =>
                  /\ execErr[1] \in BackendFailures
                  /\ SubSeq(execErr, 2, Len(execErr)) \in DriverErrors
                  /\ execReturn[1].result = NilResult
                  /\ execReturn[1].executionTime = 0
            /\ ~execReturn[1].result.isNil =>
                  /\ execErr = NoError
                  /\ Len(execReturn[1].result.Rows.elems) = Len(backendRows))
    /\ ((pc \in {"execute", "scan"}) ~> ExecuteQueryReturned)

\* the deadline passes after two rows were read: nothing of them is returned
C12_Witness ==
    /\ ExecuteQueryReturned
    /\ execErr = <<"error iterating rows", "context deadline exceeded">>
    /\ Len(resultRows.elems) = 2
    /\ execReturn[1].result.isNil

\* the call is cancelled while a row is scanned, after one row was read
C12_WitnessScan ==
    /\ ExecuteQueryReturned
    /\ execErr = <<"failed to scan row", "context canceled">>
    /\ Len(resultRows.elems) = 1
    /\ execReturn[1].result.isNil
    /\ execReturn[1].executionTime = 0

\* the arguments of the call of ExecuteQuery that is modelled
Called == execCalls[1]

\* the indices i >= 1 whose decimal form is a key of the parameter map
PositiveKeys(parameters) ==
    {i \in 1..9 : Itoa(i) \in DOMAIN parameters}

\* the values of the keys that are positive indices, by ascending index
RECURSIVE AscendingValues(_, _)
AscendingValues(parameters, keys) ==
    IF keys = {} THEN <<>>
    ELSE LET i == CHOOSE k \in keys : \A j \in keys : k <= j
         IN  <<parameters[Itoa(i)]>> \o AscendingValues(parameters, keys \ {i})

\* C13: binding raises no error on a gap in the keys, and the arguments given
\* to the backend are the values of all the keys that are positive indices,
\* in ascending index order: with keys "1" and "3" the value of "3" is the
\* second argument.
C13_GapShiftsBindings ==
    backendCalls # <<>> =>
        /\ ExecuteQueryChecks(Called.sqlQuery) = NoError
        /\ backendCalls[1].args =
              AscendingValues(Called.parameters, PositiveKeys(Called.parameters))

\* C16: the backend is queried only for a text that is not empty and that
\* ValidateQuery accepts; for an empty text ExecuteQuery returns the empty-text
\* error (the check made first), for a text the Validator rejects it returns
\* the Validator's reason wrapped in "invalid query", in both cases with a nil
\* result and without any query to the backend, whatever the parameters, the
\* limit and the offset.
C16_BackendOnlyAfterChecks ==
    /\ backendCalls # <<>> =>
          Called.sqlQuery # <<>> /\ ValidateQuery(Called.sqlQuery) = NoError
    /\ (Called.sqlQuery = <<>> \/ ValidateQuery(Called.sqlQuery) # NoError) =>
          /\ backendCalls = <<>>
          /\ pc \in {"execute", "executed"}
          /\ ExecuteQueryReturned =>
                /\ execReturn[1].result = NilResult
                /\ execReturn[1].executionTime = 0
                /\ execReturn[1].err =
                      IF Called.sqlQuery = <<>>
                      THEN <<"sql_query cannot be empty">>
                      ELSE <<"invalid query">> \o ValidateQuery(Called.sqlQuery)

\* a text the Validator rejects, with parameters, a limit and an offset
C16_Witness ==
    /\ ExecuteQueryReturned
    /\ Called.sqlQuery = Text(kwSelect, <<" ">>, Text(wInsert, <<" ">>, wInto))
    /\ Called.parameters # EmptyMap /\ Called.limit > 0 /\ Called.offset > 0
    /\ execErr = <<"invalid query", "query contains forbidden keyword", "insert">>
    /\ backendCalls = <<>>

\* the empty text, which the Validator would reject for another reason
C16_WitnessEmpty ==
    /\ ExecuteQueryReturned
    /\ Called.sqlQuery = <<>>
    /\ ValidateQuery(Called.sqlQuery) = <<"only SELECT queries are allowed">>
    /\ execErr = <<"sql_query cannot be empty">>
    /\ backendCalls = <<>>

-----------------------------------------------------------------------------
(* The load generator *)

\* the requests admitted by the semaphore that have not yet released it
InFlight ==
    {g \in Workers : worker[g] \in {"acquired", "calling", "recorded"} \cup CallResults}

\* C14: at every moment at most Concurrency requests are between the
\* semaphore's send and its receive, hence between issuing GetRetailers and
\* the recording of its result, however the NumRequests goroutines interleave;
\* the channel holds one element per such request.
C14_InFlightBounded ==
    /\ Cardinality(InFlight) <= Concurrency
    /\ semaphore = Cardinality(InFlight)
    /\ Cardinality({g \in Workers : worker[g] = "calling"}) <= Concurrency

\* every goroutine is started, Concurrency calls are issued and another
\* goroutine waits at the semaphore
C14_Witness ==
    /\ launched = NumRequests
    /\ NumRequests > Concurrency
    /\ Cardinality({g \in Workers : worker[g] = "calling"}) = Concurrency
    /\ \E g \in Workers : worker[g] = "start"

-----------------------------------------------------------------------------
(* Shutdown of the server process *)

\* the calls accepted and not yet finished
Running == DOMAIN inflight

\* C15: once a signal has been taken, the server first stops accepting (no
\* call is accepted from then on), Client.Close runs only when no accepted
\* call is still running, and so the connection is never closed under a
\* running call.
C15_GracefulShutdownOrder ==
    /\ [](/\ ~closedBusy
          /\ closeCalls > 0 => (signalled /\ ~serving /\ Running = {})
          /\ proc \in {"drain", "close", "main returns"} => (signalled /\ ~serving)
          /\ (~Exited /\ Running # {}) => dbOpen)
    /\ [][(proc \notin {"serving", "stop"}) => accepted' = accepted]_vars
    /\ [][(closeCalls' > closeCalls) => (Running = {} /\ ~serving)]_vars

\* the connection is closed after a signal that found calls running, and
\* after they all finished
C15_Witness ==
    /\ closeCalls = 1
    /\ ~dbOpen
    /\ accepted = MaxCalls
    /\ Running = {}
    /\ proc = "main returns"

\* the server waits: the signal was taken, new calls are refused and two
\* calls still run, one of them on the connection, which is open
C15_WitnessDraining ==
    /\ proc = "drain"
    /\ Cardinality(Running) = 2
    /\ \E id \in Running : inflight[id] = "query"
    /\ dbOpen /\ closeCalls = 0

\* C18: a run that started, took a signal and ended has invoked Client.Close
\* exactly once; a run whose listener could not be bound has closed the
\* connection before the process ends.
C18_ClosedExactlyOnce ==
    /\ (proc = "exit: main returned" /\ signalled) => closeCalls = 1
    /\ proc = "exit: Start failed" => (closeCalls >= 1 /\ ~dbOpen)

====
